---- MODULE Spec2Model ----
(***************************************************************************)
(* A model of molten's router (src/molten/router.py): Route, Include,      *)
(* Router.add_route / add_routes / match and _compile_route_template, and  *)
(* of QueryParams (src/molten/http/query_params.py): parse, get and        *)
(* __getitem__.                                                            *)
(*                                                                         *)
(* Python strings are modelled as sequences of one-character strings, so   *)
(* that splitting, slicing and concatenation are computed as the code      *)
(* computes them.  A compiled regular expression is the sequence of its    *)
(* atoms; Pattern.match is a backtracking matcher over that sequence.      *)
(***************************************************************************)
EXTENDS Naturals, Sequences, FiniteSets, TLC

\* Python's None.
None == "None"
\* No exception in flight.
NoExc == <<>>
SEP == "/"
NL == "\n"

(***************************************************************************)
(* str helpers                                                             *)
(***************************************************************************)

\* template.split("/"): the list of the pieces between separators; never
\* empty ("".split("/") is [""]).
RECURSIVE StrSplit(_)
StrSplit(s) ==
    IF \A i \in 1..Len(s) : s[i] # SEP
    THEN <<s>>
    ELSE LET k == CHOOSE i \in 1..Len(s) :
                      s[i] = SEP /\ \A j \in 1..(i - 1) : s[j] # SEP
         IN <<SubSeq(s, 1, k - 1)>> \o StrSplit(SubSeq(s, k + 1, Len(s)))

\* segment.startswith("{") and segment.endswith("}")
StartsWith(s, c) == Len(s) >= 1 /\ s[1] = c
EndsWith(s, c) == Len(s) >= 1 /\ s[Len(s)] = c

\* segment[1:-1]
Slice1M1(s) == SubSeq(s, 2, Len(s) - 1)

(***************************************************************************)
(* The regular expression engine, for the expressions the compiler builds  *)
(***************************************************************************)

\* One literal character of the expression text.
Lit(c) == [t |-> "lit", c |-> c]
\* The text "(?P<name>[^/]+)": a named group of one or more non-separators.
Grp(name) == [t |-> "grp", name |-> name]

\* str.isidentifier() on the characters the model draws from: only letters
\* are identifier characters here.
Letters == {"a", "b", "x", "y"}
IsIdentifier(name) == Len(name) >= 1 /\ \A i \in 1..Len(name) : name[i] \in Letters

GroupNames(toks) == {toks[i].name : i \in {j \in 1..Len(toks) : toks[j].t = "grp"}}

\* re.compile raises re.error on "(?P<>", on a group name that is no
\* identifier, and on a group name defined twice.
ReCompileFails(toks) ==
    \/ \E i \in 1..Len(toks) : toks[i].t = "grp" /\ ~IsIdentifier(toks[i].name)
    \/ \E i, j \in 1..Len(toks) :
          i # j /\ toks[i].t = "grp" /\ toks[j].t = "grp" /\ toks[i].name = toks[j].name

\* What one literal atom of the expression accepts: "." is any character
\* but a newline; every other character of the model stands for itself
\* ("{" and "}" form no quantifier without digits).
AtomAccepts(c, ch) == IF c = "." THEN ch # NL ELSE ch = c

\* "$" (no MULTILINE): the end of the string, or just before a newline that
\* is the last character.
AtEnd(path, j) ==
    \/ j = Len(path) + 1
    \/ j = Len(path) /\ path[j] = NL

\* The length of the longest run of non-separator characters from j.
RunLenAny(path, j) == IF j > Len(path) THEN 0 ELSE Len(path) - j + 1
RECURSIVE RunLen(_, _)
RunLen(path, j) ==
    IF j > Len(path) \/ path[j] = SEP THEN 0 ELSE 1 + RunLen(path, j + 1)

NoMatch == [ok |-> FALSE]
Capture(caps, name, val) ==
    [n \in DOMAIN caps \cup {name} |-> IF n = name THEN val ELSE caps[n]]

\* The backtracking search from atom i at position j: a group is greedy and
\* gives characters back one at a time until the rest matches.
RECURSIVE ReMatchFrom(_, _, _, _, _)
RECURSIVE ReGroupTry(_, _, _, _, _, _)
ReMatchFrom(toks, path, i, j, caps) ==
    IF i > Len(toks)
    THEN IF AtEnd(path, j) THEN [ok |-> TRUE, groups |-> caps] ELSE NoMatch
    ELSE IF toks[i].t = "lit"
         THEN IF j <= Len(path) /\ AtomAccepts(toks[i].c, path[j])
              THEN ReMatchFrom(toks, path, i + 1, j + 1, caps)
              ELSE NoMatch
         ELSE ReGroupTry(toks, path, i, j, caps, RunLen(path, j))
ReGroupTry(toks, path, i, j, caps, n) ==
    IF n = 0
    THEN NoMatch
    ELSE LET r == ReMatchFrom(toks, path, i + 1, j + n,
                              Capture(caps, toks[i].name, SubSeq(path, j, j + n - 1)))
         IN IF r.ok THEN r ELSE ReGroupTry(toks, path, i, j, caps, n - 1)

EmptyDict == [n \in {} |-> <<>>]

\* Pattern.match(path) of a compiled "^...$": None, or the match object
\* (groupdict() is its groups).
ReMatch(pattern, path) == ReMatchFrom(pattern.toks, path, 1, 1, EmptyDict)

(***************************************************************************)
(* _compile_route_template                                                 *)
(***************************************************************************)

\* The expression text one segment adds to re_template.
SegmentRe(segment) ==
    IF StartsWith(segment, "{") /\ EndsWith(segment, "}")
    THEN <<Lit(SEP), Grp(Slice1M1(segment))>>
    ELSE <<Lit(SEP)>> \o [i \in 1..Len(segment) |-> Lit(segment[i])]

RECURSIVE ReTemplate(_)
ReTemplate(segments) ==
    IF segments = <<>> THEN <<>>
    ELSE SegmentRe(Head(segments)) \o ReTemplate(Tail(segments))

\* The compiled pattern, or the re.error that re.compile raises.
CompileRouteTemplate(template) ==
    LET toks == ReTemplate(Tail(StrSplit(template)))
    IN IF ReCompileFails(toks)
       THEN [error |-> TRUE, toks |-> toks]
       ELSE [error |-> FALSE, toks |-> toks]

(***************************************************************************)
(* Route and Include                                                       *)
(***************************************************************************)

\* Route.__init__: name defaults to handler.__name__ when it is None or
\* empty.  A handler is modelled by its __name__.
Route(template, handler, method, name) ==
    [class |-> "Route", template |-> template, handler |-> handler,
     method |-> method,
     name |-> IF name = None \/ name = "" THEN handler ELSE name]

\* Include.__init__
Include(prefix, routes) == [class |-> "Include", prefix |-> prefix, routes |-> routes]

(***************************************************************************)
(* Router                                                                  *)
(***************************************************************************)

\* A dict with no key.
EmptyMap == [k \in {} |-> <<>>]

\* d[k] of a defaultdict(list): a missing key is inserted with an empty list.
Touch(d, k) ==
    IF k \in DOMAIN d THEN d
    ELSE [j \in DOMAIN d \cup {k} |-> IF j = k THEN <<>> ELSE d[j]]

\* d[k].insert(0, v) of a defaultdict(list)
InsertBack(d, k, v) == [Touch(d, k) EXCEPT ![k] = Append(@, v)]
InsertFront(d, k, v) == [Touch(d, k) EXCEPT ![k] = <<v>> \o @]

\* d[k] = v of a dict
StoreByHandler(d, k, v) ==
    [j \in DOMAIN d \cup {v.handler} |-> IF j = v.handler THEN v ELSE d[j]]
Store(d, k, v) == [j \in DOMAIN d \cup {k} |-> IF j = k THEN v ELSE d[j]]

\* The router's three attributes, the exception in flight and the log of
\* the routes that passed the name check, each with the prefix it was
\* added under, in the order they were added.
RouterState(by_name, by_method, res_by_method, log) ==
    [by_name |-> by_name, by_method |-> by_method, res_by_method |-> res_by_method,
     added |-> log, exc |-> NoExc]

\* route_like.name in self._routes_by_name
NameTakenSameMethod(st, route) ==
    /\ route.name \in DOMAIN st.by_name
    /\ st.by_name[route.name].method = route.method
NameTaken(st, route) == route.name \in DOMAIN st.by_name

\* The Route branch of add_route.
AddOneRoute(st, route, prefix) ==
    IF NameTaken(st, route)
    THEN [st EXCEPT !.exc = <<"ValueError", route.name>>]
    ELSE LET pattern == CompileRouteTemplate(prefix \o route.template)
             s1 == [st EXCEPT
                      !.by_name = Store(@, route.name, route),
                      !.by_method = InsertFront(@, route.method, route),
                      !.added = Append(@, [route |-> route, prefix |-> prefix])]
         IN IF pattern.error
            \* the list is looked up before the argument is evaluated
            THEN [s1 EXCEPT !.res_by_method = Touch(@, route.method),
                            !.exc = <<"re.error", route.name>>]
            ELSE [s1 EXCEPT !.res_by_method = InsertFront(@, route.method, pattern)]

\* The prefix add_route passes down for an Include.
IncludePrefixSwapped(prefix, include) == include.prefix \o prefix
IncludePrefix(prefix, include) == prefix \o include.prefix

\* add_route and add_routes; an exception in flight ends every loop.
RECURSIVE AddRoute(_, _, _)
RECURSIVE AddRoutes(_, _, _)
RECURSIVE AddRoutesKeepGoing(_, _, _)
AddRoutesKeepGoing(st, route_likes, prefix) ==
    IF route_likes = <<>> THEN st
    ELSE LET s1 == AddRoute([st EXCEPT !.exc = NoExc], Head(route_likes), prefix)
             s2 == IF st.exc # NoExc THEN [s1 EXCEPT !.exc = st.exc] ELSE s1
         IN AddRoutesKeepGoing(s2, Tail(route_likes), prefix)
AddRoute(st, route_like, prefix) ==
    IF st.exc # NoExc THEN st
    ELSE IF route_like.class = "Include"
         THEN AddRoutes(st, route_like.routes, IncludePrefix(prefix, route_like))
         ELSE AddOneRoute(st, route_like, prefix)
AddRoutes(st, route_likes, prefix) ==
    IF st.exc # NoExc \/ route_likes = <<>> THEN st
    ELSE AddRoutes(AddRoute(st, Head(route_likes), prefix), Tail(route_likes), prefix)

\* zip(routes, route_res) and the loop of match: the first pair whose
\* pattern matches, or None.
MatchLoopDefault(routes, route_res, path, i) ==
    IF \E k \in 1..Len(route_res) : k <= Len(routes) /\ ReMatch(route_res[k], path).ok
    THEN LET k == CHOOSE k \in 1..Len(route_res) :
                      /\ k <= Len(routes) /\ ReMatch(route_res[k], path).ok
                      /\ \A j \in 1..(k - 1) : ~ReMatch(route_res[j], path).ok
         IN <<routes[k], ReMatch(route_res[k], path).groups>>
    ELSE IF routes # <<>> THEN <<routes[1], EmptyDict>> ELSE None
RECURSIVE MatchLoop(_, _, _, _)
MatchLoop(routes, route_res, path, i) ==
    IF i > Len(routes) \/ i > Len(route_res) THEN None
    ELSE LET m == ReMatch(route_res[i], path)
         IN IF m.ok THEN <<routes[i], m.groups>>
            ELSE MatchLoop(routes, route_res, path, i + 1)

\* The value match(method, path) returns.
MatchValueAnyCase(by_method, res_by_method, method, path) ==
    LET key == IF method = "get" THEN "GET" ELSE method
    IN MatchLoop(Touch(by_method, key)[key], Touch(res_by_method, key)[key], path, 1)
MatchValue(by_method, res_by_method, method, path) ==
    MatchLoop(Touch(by_method, method)[method], Touch(res_by_method, method)[method],
              path, 1)

(***************************************************************************)
(* QueryParams (src/molten/http/query_params.py)                           *)
(***************************************************************************)

\* qs.split(separator): the pieces between the occurrences of c.
RECURSIVE SplitOn(_, _)
SplitOn(s, c) ==
    IF \A i \in 1..Len(s) : s[i] # c
    THEN <<s>>
    ELSE LET k == CHOOSE i \in 1..Len(s) : s[i] = c /\ \A j \in 1..(i - 1) : s[j] # c
         IN <<SubSeq(s, 1, k - 1)>> \o SplitOn(SubSeq(s, k + 1, Len(s)), c)

\* name_value.split("=", 1): one piece, or the text before the first "=" and
\* the text after it.
SplitOnce(s, c) ==
    IF \A i \in 1..Len(s) : s[i] # c
    THEN <<s>>
    ELSE LET k == CHOOSE i \in 1..Len(s) : s[i] = c /\ \A j \in 1..(i - 1) : s[j] # c
         IN <<SubSeq(s, 1, k - 1), SubSeq(s, k + 1, Len(s))>>

\* s.replace("+", " ") followed by unquote(s); the model's strings hold no
\* "%", so that unquote changes nothing.
Unplus(s) == [i \in 1..Len(s) |-> IF s[i] = "+" THEN " " ELSE s[i]]

\* The loop of urllib.parse.parse_qsl with its default arguments: an empty
\* field, a field with no "=" and a field with a blank value are skipped.
RECURSIVE QslLoop(_)
QslLoop(query_args) ==
    IF query_args = <<>> THEN <<>>
    ELSE LET name_value == Head(query_args)
             nv == SplitOnce(name_value, "=")
         IN (IF name_value = <<>> \/ Len(nv) # 2 \/ Len(nv[2]) = 0
             THEN <<>>
             ELSE << <<Unplus(nv[1]), Unplus(nv[2])>> >>)
            \o QslLoop(Tail(query_args))

\* parse_qsl(query_string): the list of (name, value) pairs.
ParseQsl(qs) == QslLoop(IF qs = <<>> THEN <<>> ELSE SplitOn(qs, "&"))

\* MultiDict(pairs): _data is a defaultdict(list) that collects, per name,
\* the values in the order of the pairs.
RECURSIVE MultiDictAddAll(_, _)
MultiDictAddAll(data, pairs) ==
    IF pairs = <<>> THEN data
    ELSE MultiDictAddAll(InsertBack(data, Head(pairs)[1], Head(pairs)[2]), Tail(pairs))

\* QueryParams.parse(query_string): the _data of the new instance.
Parse(query_string) == MultiDictAddAll(EmptyMap, ParseQsl(query_string))

\* Python's None where a str may stand: no string of single characters
\* equals it.
NoneStr == <<None>>

\* QueryParams.__getitem__(name): self._data[name][-1], an IndexError
\* turned into ParamMissing; the lookup itself inserts a missing name.
GetItemFirst(data, name) ==
    LET values == Touch(data, name)[name]
    IN IF values = <<>>
       THEN [data |-> Touch(data, name), exc |-> <<"ParamMissing", name>>, value |-> NoneStr]
       ELSE [data |-> data, exc |-> NoExc, value |-> values[1]]
GetItem(data, name) ==
    LET values == Touch(data, name)[name]
    IN IF values = <<>>
       THEN [data |-> Touch(data, name), exc |-> <<"ParamMissing", name>>, value |-> NoneStr]
       ELSE [data |-> data, exc |-> NoExc, value |-> values[Len(values)]]

\* QueryParams.get(name, default): self[name], ParamMissing turned into the
\* default.
Get(data, name, default) ==
    LET item == GetItem(data, name)
    IN IF item.exc # NoExc /\ item.exc[1] = "ParamMissing"
       THEN [item EXCEPT !.exc = NoExc, !.value = default]
       ELSE item

(***************************************************************************)
(* The inputs                                                              *)
(***************************************************************************)

MaxRoutes == 3
MaxDepth == 1
MaxPathSegs == 3
MaxTplSegs == 2

Methods == {"GET", "POST"}

\* The Route objects the application builds: <<template, handler, method, name>>.
RouteArgs ==
    { << <<"/", "a">>, "h", "GET", None >>,
      << <<"/", "a">>, "h", "POST", None >>,
      << <<"/", "{", "x", "}">>, "g", "GET", None >>,
      << <<"/", "{", "}">>, "g", "GET", None >>,
      << <<"/", "{", "x", "}">>, "h", "GET", "H" >> }
Routes == {Route(a[1], a[2], a[3], a[4]) : a \in RouteArgs}

OuterPrefixes == {<<>>, <<"/", "b">>}
GroupPrefixes == {<<"/", "a">>}

\* The lists of exactly n routes, with includes nested to depth d.
RECURSIVE RouteLists(_, _)
RouteLists(d, n) ==
    IF n = 0 THEN {<<>>}
    ELSE UNION {
           { <<e>> \o rest :
               e \in (IF k = 1 THEN Routes ELSE {})
                     \cup (IF d = 0 THEN {}
                           ELSE {Include(p, l) : p \in GroupPrefixes,
                                                 l \in RouteLists(d - 1, k)}),
               rest \in RouteLists(d, n - k) } : k \in 1..n }

\* The lists of routes and includes the application registers, by the
\* number of routes in them.
RouteListsOf == [n \in 0..MaxRoutes |-> RouteLists(MaxDepth, n)]

\* The paths of up to n segments drawn from segs.
RECURSIVE PathsOf(_, _)
PathsOf(segs, n) ==
    IF n = 0 THEN {<<>>}
    ELSE {<<>>} \cup {<<SEP>> \o s \o rest : s \in segs, rest \in PathsOf(segs, n - 1)}

PathSegs == {<<"a">>, <<"b">>}
Paths == PathsOf(PathSegs, MaxPathSegs)

\* The single-route router: richer templates and paths.
TemplateSegs ==
    { <<>>, <<"a">>, <<"b">>, <<".">>, <<"{", "x", "}">>, <<"{", "y", "}">>,
      <<"{", "}">>, <<"{", "x">>, <<"x", "}">> }
TemplateLeads == {<<>>, <<"b">>}
Templates == {lead \o t : lead \in TemplateLeads, t \in PathsOf(TemplateSegs, MaxTplSegs)}
OneMethods == {"GET", "get"}
RichPathSegs == {<<>>, <<"a">>, <<"b">>, <<"a", "-", "b">>, <<"a", NL>>, <<"{", "x">>}
RichPaths == PathsOf(RichPathSegs, MaxPathSegs)

\* The query strings: up to MaxFields fields joined by "&".  A field is
\* empty, a bare name, or a name, "=" and a value that may be blank or hold a
\* "=" or a "+" of its own.
MaxFields == 3
QueryNames == {<<"a">>, <<"b">>}
QueryValues == {<<>>, <<"1">>, <<"2">>, <<"1", "=", "+">>}
QueryFields ==
    {<<>>} \cup QueryNames \cup {n \o <<"=">> \o v : n \in QueryNames, v \in QueryValues}
RECURSIVE JoinedFields(_)
JoinedFields(n) ==
    IF n = 1 THEN QueryFields
    ELSE {f \o <<"&">> \o rest : f \in QueryFields, rest \in JoinedFields(n - 1)}
QueryStrings == UNION {JoinedFields(n) : n \in 1..MaxFields}
AskedNames == QueryNames \cup {<<"c">>}
Defaults == {NoneStr, <<"d">>}

(***************************************************************************)
(* The state machine                                                       *)
(***************************************************************************)

VARIABLES
    routes_by_name,       \* Router._routes_by_name
    routes_by_method,     \* Router._routes_by_method
    route_res_by_method,  \* Router._route_res_by_method
    added,                \* the log of RouterState
    ret,                  \* what the last call returned or raised
    registering,          \* the add_route call in progress and the line it is at
    query_string,         \* the string QueryParams.parse was given
    params_data           \* QueryParams._data

vars == <<routes_by_name, routes_by_method, route_res_by_method, added, ret,
          registering, query_string, params_data>>

\* No add_route call is between two of its updates.
Idle == <<>>

Current == RouterState(routes_by_name, routes_by_method, route_res_by_method, added)

\* Router(): the three empty attributes, then add_routes([]).
Init ==
    /\ routes_by_name = EmptyMap
    /\ routes_by_method = EmptyMap
    /\ route_res_by_method = EmptyMap
    /\ added = <<>>
    /\ ret = [op |-> "init", exc |-> NoExc, value |-> None]
    /\ registering = Idle
    /\ query_string = NoneStr
    /\ params_data = EmptyMap

\* The room left under MaxRoutes names.
Room == MaxRoutes - Cardinality(DOMAIN routes_by_name)

\* The attributes a call leaves behind, and what it raised.
Install(st, op) ==
    /\ routes_by_name' = st.by_name
    /\ routes_by_method' = st.by_method
    /\ route_res_by_method' = st.res_by_method
    /\ added' = st.added
    /\ ret' = [op |-> op, exc |-> st.exc, value |-> None]
    /\ UNCHANGED <<registering, query_string, params_data>>

\* router.add_route(route_like, prefix), the caller catching what it raises.
CallAddRoute(route_like, prefix) ==
    /\ registering = Idle
    /\ Install(AddRoute(Current, route_like, prefix), "add_route")

\* router.add_routes(route_likes, prefix), the caller catching what it raises.
CallAddRoutes(route_likes, prefix) ==
    /\ registering = Idle
    /\ Install(AddRoutes(Current, route_likes, prefix), "add_routes")

\* router.match(method, path)
CallMatch(method, path) ==
    /\ ret' = [op |-> "match", exc |-> NoExc,
               value |-> MatchValue(routes_by_method, route_res_by_method, method, path)]
    /\ routes_by_method' = Touch(routes_by_method, method)
    /\ route_res_by_method' = Touch(route_res_by_method, method)
    /\ UNCHANGED <<routes_by_name, added, registering, query_string, params_data>>


Next ==
    \/ \E r \in Routes, p \in OuterPrefixes : CallAddRoute(r, p)
    \/ \E n \in 0..Room : \E l \in RouteListsOf[n], p \in OuterPrefixes : CallAddRoutes(l, p)
    \/ \E m \in Methods, p \in Paths : CallMatch(m, p)

Spec == Init /\ [][Next]_vars

\* A router that holds one GET route, drawn from the rich templates, and is
\* matched against the rich paths.
NextOne ==
    \/ /\ routes_by_name = EmptyMap
       /\ \E t \in Templates : CallAddRoute(Route(t, "h", "GET", None), <<>>)
    \/ \E m \in OneMethods, p \in RichPaths : CallMatch(m, p)

SpecOne == Init /\ [][NextOne]_vars

\* The router is left as it is.
RouterUnchanged ==
    UNCHANGED <<routes_by_name, routes_by_method, route_res_by_method, added, registering>>

\* params = QueryParams.parse(qs)
CallParse(qs) ==
    /\ query_string = NoneStr
    /\ query_string' = qs
    /\ params_data' = Parse(qs)
    /\ ret' = [op |-> "parse", exc |-> NoExc, value |-> None]
    /\ RouterUnchanged

\* params.get(name, default)
CallGet(name, default) ==
    /\ query_string # NoneStr
    /\ LET r == Get(params_data, name, default)
       IN /\ params_data' = r.data
          /\ ret' = [op |-> "get", exc |-> r.exc, value |-> r.value]
    /\ UNCHANGED query_string
    /\ RouterUnchanged

\* params[name], the caller catching what it raises
CallGetItem(name) ==
    /\ query_string # NoneStr
    /\ LET r == GetItem(params_data, name)
       IN /\ params_data' = r.data
          /\ ret' = [op |-> "getitem", exc |-> r.exc, value |-> r.value]
    /\ UNCHANGED query_string
    /\ RouterUnchanged

NextQuery ==
    \/ /\ query_string = NoneStr
       /\ \E qs \in QueryStrings : CallParse(qs)
    \/ \E n \in AskedNames, d \in Defaults : CallGet(n, d)
    \/ \E n \in AskedNames : CallGetItem(n)

SpecQuery == Init /\ [][NextQuery]_vars

\* The QueryParams instance is left as it is.
ParamsUnchanged == UNCHANGED <<query_string, params_data>>

\* add_route(route, prefix) of a Route, up to its first update (lines 58-61):
\* the name check, which ends the call with ValueError, or the store into
\* the name index.
AddRouteName(route, prefix) ==
    /\ registering = Idle
    /\ IF NameTaken(Current, route)
       THEN /\ ret' = [op |-> "add_route", exc |-> <<"ValueError", route.name>>,
                       value |-> None]
            /\ UNCHANGED <<routes_by_name, added, registering>>
       ELSE /\ routes_by_name' = Store(routes_by_name, route.name, route)
            /\ added' = Append(added, [route |-> route, prefix |-> prefix])
            /\ registering' = <<[route |-> route, prefix |-> prefix, line |-> 62]>>
            /\ UNCHANGED ret
    /\ UNCHANGED <<routes_by_method, route_res_by_method>>
    /\ ParamsUnchanged

\* Line 62: the insert into the method's route list.
AddRouteList ==
    /\ registering # Idle
    /\ registering[1].line = 62
    /\ routes_by_method' =
          InsertFront(routes_by_method, registering[1].route.method, registering[1].route)
    /\ registering' = <<[registering[1] EXCEPT !.line = 63]>>
    /\ UNCHANGED <<routes_by_name, route_res_by_method, added, ret>>
    /\ ParamsUnchanged

\* Lines 63-65: the lookup of the method's pattern list, the compilation,
\* which may end the call with re.error, and the insert of the pattern.
AddRoutePattern ==
    /\ registering # Idle
    /\ registering[1].line = 63
    /\ LET route == registering[1].route
           pattern == CompileRouteTemplate(registering[1].prefix \o route.template)
       IN IF pattern.error
          THEN /\ route_res_by_method' = Touch(route_res_by_method, route.method)
               /\ ret' = [op |-> "add_route", exc |-> <<"re.error", route.name>>,
                          value |-> None]
          ELSE /\ route_res_by_method' =
                     InsertFront(route_res_by_method, route.method, pattern)
               /\ ret' = [op |-> "add_route", exc |-> NoExc, value |-> None]
    /\ registering' = Idle
    /\ UNCHANGED <<routes_by_name, routes_by_method, added>>
    /\ ParamsUnchanged

\* The routes whose template compiles under every outer prefix.
CompilingRoutes ==
    {r \in Routes : \A p \in OuterPrefixes : ~CompileRouteTemplate(p \o r.template).error}

\* One thread registers routes while others call match: match may run
\* between any two updates of add_route.  The routes are drawn from those
\* that compile, so that every registration runs to its end.
NextConcurrent ==
    \/ /\ Room > 0
       /\ \E r \in CompilingRoutes, p \in OuterPrefixes : AddRouteName(r, p)
    \/ AddRouteList
    \/ AddRoutePattern
    \/ \E m \in Methods, p \in Paths : CallMatch(m, p)

SpecConcurrent == Init /\ [][NextConcurrent]_vars
(***************************************************************************)
(* Properties                                                              *)
(***************************************************************************)

\* match(method, path) on the current router.
Matched(method, path) == MatchValue(routes_by_method, route_res_by_method, method, path)

\* The list a defaultdict holds under a key (empty when the key is missing).
ListOf(d, k) == IF k \in DOMAIN d THEN d[k] ELSE <<>>

\* The template a logged route was compiled from.
EffectiveTemplate(e) == e.prefix \o e.route.template

\* Whether a template compiles and its pattern accepts the path.
TemplateMatches(template, path) ==
    LET pattern == CompileRouteTemplate(template)
    IN ~pattern.error /\ ReMatch(pattern, path).ok

\* The routes of a list of routes and includes in depth-first, left-to-right
\* order, each with the outer prefix followed by the prefixes of its
\* enclosing includes from the outermost to the innermost.
RECURSIVE Flatten(_, _)
Flatten(route_likes, prefix) ==
    IF route_likes = <<>> THEN <<>>
    ELSE LET h == Head(route_likes)
         IN (IF h.class = "Include"
             THEN Flatten(h.routes, prefix \o h.prefix)
             ELSE <<[route |-> h, prefix |-> prefix]>>)
            \o Flatten(Tail(route_likes), prefix)

Reverse(s) == [i \in 1..Len(s) |-> s[Len(s) + 1 - i]]

RECURSIVE OfMethod(_, _)
OfMethod(entries, m) ==
    IF entries = <<>> THEN <<>>
    ELSE (IF Head(entries).route.method = m THEN <<Head(entries)>> ELSE <<>>)
         \o OfMethod(Tail(entries), m)

RoutesIn(entries) == [i \in 1..Len(entries) |-> entries[i].route]
PatternsIn(entries) ==
    [i \in 1..Len(entries) |-> CompileRouteTemplate(EffectiveTemplate(entries[i]))]

\* The inputs of add_routes that fit the room left.
FittingCalls ==
    {<<l, p>> : l \in UNION {RouteListsOf[n] : n \in 0..Room}, p \in OuterPrefixes}

IsValueError(exc) == exc # NoExc /\ exc[1] = "ValueError"
IsReError(exc) == exc # NoExc /\ exc[1] = "re.error"

MaxOf(S) == CHOOSE i \in S : \A j \in S : j <= i

\* C1: match(method, path) returns the most recently added route among the
\* routes of that method whose effective template matches the path, and
\* None when there is none.
C1_LastRegisteredWins ==
    \A m \in Methods, p \in Paths :
        LET c == {i \in 1..Len(added) :
                     /\ added[i].route.method = m
                     /\ TemplateMatches(EffectiveTemplate(added[i]), p)}
            v == Matched(m, p)
        IN IF c = {} THEN v = None
           ELSE v # None /\ v[1] = added[MaxOf(c)].route

\* C2: adding a route raises the duplicate-name error exactly when its name
\* is a key of the name index, whatever its method and template; two routes
\* of one template and method with distinct free names are both added.
C2_DuplicateNameIffInIndex ==
    /\ \A r \in Routes, p \in OuterPrefixes :
          IsValueError(AddRoute(Current, r, p).exc) <=> r.name \in DOMAIN routes_by_name
    /\ \A r1, r2 \in Routes, p \in OuterPrefixes :
          ( /\ r1.name # r2.name
            /\ r1.template = r2.template /\ r1.method = r2.method
            /\ {r1.name, r2.name} \cap DOMAIN routes_by_name = {}
            /\ ~CompileRouteTemplate(p \o r1.template).error )
          => LET post == AddRoutes(Current, <<r1, r2>>, p)
             IN /\ post.exc = NoExc
                /\ post.by_name[r1.name] = r1 /\ post.by_name[r2.name] = r2
                /\ ListOf(post.by_method, r1.method)
                     = <<r2, r1>> \o ListOf(routes_by_method, r1.method)
    /\ IsValueError(ret.exc) => ret.exc[2] \in DOMAIN routes_by_name

\* C2 witness: a route was refused for its name while the route that holds
\* the name has the other method.
C2_Witness ==
    /\ ret.op = "add_route" /\ ret.exc = <<"ValueError", "h">>
    /\ routes_by_name["h"].method = "POST"
    /\ "H" \in DOMAIN routes_by_name

\* C3: after add_routes returns, each method's route list (and pattern list)
\* is the reverse of the depth-first, left-to-right order of that method's
\* routes in the list, in front of what the method held before.
C3_ReverseOfVisitOrder ==
    \A c \in FittingCalls :
        LET post == AddRoutes(Current, c[1], c[2])
            flat == Flatten(c[1], c[2])
        IN post.exc = NoExc =>
             \A m \in Methods :
                 /\ ListOf(post.by_method, m)
                      = Reverse(RoutesIn(OfMethod(flat, m))) \o ListOf(routes_by_method, m)
                 /\ ListOf(post.res_by_method, m)
                      = Reverse(PatternsIn(OfMethod(flat, m)))
                          \o ListOf(route_res_by_method, m)

\* C3 witness: one add_routes call added three GET routes, and they are
\* stored last-added first.
C3_Witness ==
    /\ ret.op = "add_routes" /\ ret.exc = NoExc
    /\ Len(added) = 3
    /\ \A i \in 1..3 : added[i].route.method = "GET"
    /\ added[2].prefix # added[1].prefix
    /\ routes_by_method["GET"] = <<added[3].route, added[2].route, added[1].route>>

\* The position of the route of that name in a list of routes.
PositionOf(routes, name) == CHOOSE j \in 1..Len(routes) : routes[j].name = name

RECURSIVE Replay(_, _)
Replay(st, entries) ==
    IF entries = <<>> THEN st
    ELSE Replay([AddOneRoute(st, Head(entries).route, Head(entries).prefix)
                   EXCEPT !.exc = NoExc],
                Tail(entries))

EmptyRouter == RouterState(EmptyMap, EmptyMap, EmptyMap, <<>>)

\* C5: match returns only routes whose method is exactly the method asked
\* for, and what it returns is what the routes added under that method alone
\* give: a route added under another method changes nothing.
C5_MethodIsolation ==
    \A m \in Methods \cup {"get", "Post"}, p \in Paths :
        LET v == Matched(m, p)
            alone == Replay(EmptyRouter, OfMethod(added, m))
        IN /\ v # None => v[1].method = m
           /\ v = MatchValue(alone.by_method, alone.res_by_method, m, p)

\* C5 witness: a POST route and a later GET route both match the path /a,
\* and match has just returned the POST route.
C5_Witness ==
    /\ ret.op = "match" /\ ret.value # None
    /\ ret.value[1].method = "POST"
    /\ \E i, j \in 1..Len(added) :
          /\ added[i].route.method = "GET" /\ added[j].route = ret.value[1]
          /\ TemplateMatches(EffectiveTemplate(added[i]), <<"/", "a">>)
          /\ TemplateMatches(EffectiveTemplate(added[j]), <<"/", "a">>)
          /\ i > j

\* C9: match raises nothing and returns None or a pair of a route of that
\* method and a dict; it returns None when no route added under the method
\* has a template that matches the path, and when the method has no list.
C9_MatchReturnsPairOrNone ==
    /\ ret.op = "match" =>
          /\ ret.exc = NoExc
          /\ ret.value # None =>
                /\ Len(ret.value) = 2
                /\ ret.value[1] \in {added[i].route : i \in 1..Len(added)}
    /\ \A m \in Methods \cup {"get"}, p \in Paths :
          LET v == Matched(m, p)
          IN /\ v # None =>
                  /\ Len(v) = 2
                  /\ \E i \in 1..Len(ListOf(routes_by_method, m)) :
                        v[1] = routes_by_method[m][i]
             /\ (\A i \in 1..Len(added) :
                    added[i].route.method = m
                      => ~TemplateMatches(EffectiveTemplate(added[i]), p))
                  => v = None
             /\ m \notin DOMAIN routes_by_method => v = None

\* C9 witness: match returned None for a method no route was added under,
\* on a router that holds a route of the other method.
C9_Witness ==
    /\ ret.op = "match" /\ ret.value = None
    /\ added # <<>>
    /\ \A i \in 1..Len(added) : added[i].route.method = "GET"
    /\ "POST" \in DOMAIN routes_by_method /\ routes_by_method["POST"] = <<>>

\* C10: when add_routes raises the duplicate-name error, the router is as
\* it was just before the refused route was processed: the name is still
\* bound to the route that held it and no list has gained the refused route
\* or any later entry of the batch, so that match, which reads only the two
\* lists, answers as it did then.
C10_DuplicateInsertsNothing ==
    \A c \in FittingCalls \cup {<<<<r>>, p>> : r \in Routes, p \in OuterPrefixes} :
        LET post == AddRoutes(Current, c[1], c[2])
            flat == Flatten(c[1], c[2])
        IN IsValueError(post.exc) =>
             \E k \in 1..Len(flat) :
                 LET held == Replay(Current, SubSeq(flat, 1, k - 1))
                 IN /\ flat[k].route.name = post.exc[2]
                    /\ flat[k].route.name \in DOMAIN held.by_name
                    /\ post.by_name = held.by_name
                    /\ post.by_name[flat[k].route.name] = held.by_name[flat[k].route.name]
                    /\ post.by_method = held.by_method
                    /\ post.res_by_method = held.res_by_method

\* C10 witness: add_routes raised the duplicate-name error with one route of
\* the batch added and the name index holding only that route.
C10_Witness ==
    /\ ret.op = "add_routes" /\ IsValueError(ret.exc)
    /\ Len(added) = 1
    /\ DOMAIN routes_by_name = {ret.exc[2]}
    /\ routes_by_name[ret.exc[2]] = added[1].route

\* The segments of a template or of a path, as the compiler splits them.
SegmentsOf(s) == Tail(StrSplit(s))
IsPlaceholder(segment) == StartsWith(segment, "{") /\ EndsWith(segment, "}")
\* A literal segment with no character that means something to the pattern
\* engine.
IsPlain(segment) == \A i \in 1..Len(segment) : segment[i] \in Letters
HasNoSeparator(s) == \A i \in 1..Len(s) : s[i] # SEP

\* The log entry of a route.
EntryOf(route) == added[CHOOSE i \in 1..Len(added) : added[i].route = route]

\* C6: a {name} placeholder captures one path segment of at least one
\* character and never a separator: whatever match captures is non-empty and
\* holds no separator, and a template of plain literal segments followed by
\* one placeholder matches exactly the paths that continue its literal part
\* with a separator and one non-empty run of non-separators, which it
\* captures.
C6_PlaceholderIsOneSegment ==
    \A i \in 1..Len(added), p \in RichPaths :
        LET t == EffectiveTemplate(added[i])
            segs == SegmentsOf(t)
            v == Matched(added[i].route.method, p)
        IN /\ v # None =>
                \A n \in DOMAIN v[2] : v[2][n] # <<>> /\ HasNoSeparator(v[2][n])
           /\ ( /\ StartsWith(t, SEP)
                /\ IsPlaceholder(segs[Len(segs)])
                /\ IsIdentifier(Slice1M1(segs[Len(segs)]))
                /\ \A k \in 1..(Len(segs) - 1) : IsPlain(segs[k]) )
              => LET lit == SubSeq(t, 1, Len(t) - Len(segs[Len(segs)]))
                     rest == SubSeq(p, Len(lit) + 1, Len(p))
                     fits == /\ Len(p) > Len(lit)
                             /\ SubSeq(p, 1, Len(lit)) = lit
                             /\ HasNoSeparator(rest)
                 IN /\ v # None <=> fits
                    /\ v # None =>
                         v[2] = [n \in {Slice1M1(segs[Len(segs)])} |-> rest]

\* C6 witness: the template /a/{x} was matched against /a/a-b and captured
\* a-b.
C6_Witness ==
    /\ ret.op = "match" /\ ret.value # None
    /\ Len(added) = 1
    /\ EffectiveTemplate(added[1]) = <<"/", "a", "/", "{", "x", "}">>
    /\ ret.value[2] = [n \in {<<"x">>} |-> <<"a", "-", "b">>]

\* C7: when match returns a route, the keys of the dict are exactly the
\* placeholder names of that route's effective template, and each value is
\* the text of the path segment at the placeholder's position (so a template
\* with no placeholder gives the empty dict).
C7_ParamsAreThePlaceholders ==
    \A m \in Methods, p \in Paths :
        LET v == Matched(m, p)
        IN v # None =>
             LET tsegs == SegmentsOf(EffectiveTemplate(EntryOf(v[1])))
                 psegs == SegmentsOf(p)
                 holders == {i \in 1..Len(tsegs) : IsPlaceholder(tsegs[i])}
             IN /\ DOMAIN v[2] = {Slice1M1(tsegs[i]) : i \in holders}
                /\ \A i \in holders :
                      i <= Len(psegs) /\ v[2][Slice1M1(tsegs[i])] = psegs[i]

\* Whether the path has the template's number of segments, equal literal
\* segments and a non-empty segment at every placeholder.
SegmentsAgree(template, path) ==
    LET tsegs == SegmentsOf(template)
        psegs == SegmentsOf(path)
    IN /\ StartsWith(path, SEP)
       /\ Len(psegs) = Len(tsegs)
       /\ \A i \in 1..Len(tsegs) :
             IF IsPlaceholder(tsegs[i]) THEN psegs[i] # <<>> ELSE psegs[i] = tsegs[i]

\* C8: a template that begins with the separator, with plain literal
\* segments and well-named placeholders, matches a path exactly when the
\* path has the same number of segments, the same literal segments and a
\* non-empty segment at every placeholder.
C8_WholePathOnly ==
    \A i \in 1..Len(added), p \in RichPaths :
        LET t == EffectiveTemplate(added[i])
            segs == SegmentsOf(t)
        IN ( /\ StartsWith(t, SEP)
             /\ ~CompileRouteTemplate(t).error
             /\ \A k \in 1..Len(segs) :
                   IF IsPlaceholder(segs[k]) THEN IsIdentifier(Slice1M1(segs[k]))
                   ELSE IsPlain(segs[k]) )
           => (Matched(added[i].route.method, p) # None <=> SegmentsAgree(t, p))

\* Whether positions i..j of the query string are one whole field (bounded
\* by "&" or the ends of the string) that reads name, "=", and a value of at
\* least one character.
IsFieldOf(qs, i, j, name) ==
    /\ i <= j /\ j <= Len(qs)
    /\ (i = 1 \/ qs[i - 1] = "&")
    /\ (j = Len(qs) \/ qs[j + 1] = "&")
    /\ \A k \in i..j : qs[k] # "&"
    /\ j - i + 1 > Len(name) + 1
    /\ SubSeq(qs, i, i + Len(name) - 1) = name
    /\ qs[i + Len(name)] = "="

\* The decoded value of the field at positions i..j.
FieldValue(qs, i, j, name) ==
    LET raw == SubSeq(qs, i + Len(name) + 1, j)
    IN [k \in 1..Len(raw) |-> IF raw[k] = "+" THEN " " ELSE raw[k]]

\* C11: on the mapping parse built from a query string, get(name, default)
\* returns the decoded value of the last field of the string that gives the
\* name a value, and the default, raising nothing, when no field does;
\* indexing returns the same value in the first case and raises ParamMissing
\* in the second.  Fields with a blank value, with no "=" or with no text
\* give no value: parse leaves them out of the mapping.
C11_GetLastOrDefault ==
    query_string # NoneStr =>
        \A name \in AskedNames, default \in Defaults :
            LET qs == query_string
                occ == {w \in (1..Len(qs)) \X (1..Len(qs)) :
                           IsFieldOf(qs, w[1], w[2], name)}
                got == Get(params_data, name, default)
                item == GetItem(params_data, name)
            IN IF occ # {}
               THEN LET last == CHOOSE w \in occ : \A u \in occ : u[1] <= w[1]
                        value == FieldValue(qs, last[1], last[2], name)
                    IN /\ got.exc = NoExc /\ got.value = value
                       /\ item.exc = NoExc /\ item.value = value
               ELSE /\ got.exc = NoExc /\ got.value = default
                    /\ item.exc = <<"ParamMissing", name>>

\* C11 witness: the string a=1&b=1&a=2 was parsed and get returned 2, the
\* last of the two values of a.
C11_Witness ==
    /\ query_string = <<"a", "=", "1", "&", "b", "=", "1", "&", "a", "=", "2">>
    /\ ret.op = "get" /\ ret.exc = NoExc
    /\ ret.value = <<"2">>

\* C12: in every state, also after an add_route or add_routes call raised and
\* the caller caught the error, each method's route list and pattern list
\* have the same length, and the pattern at each position is the one compiled
\* from the effective template of the route at that position.
C12_RoutePairedWithOwnPattern ==
    \A m \in DOMAIN routes_by_method \cup DOMAIN route_res_by_method :
        LET routes == ListOf(routes_by_method, m)
            route_res == ListOf(route_res_by_method, m)
        IN /\ Len(routes) = Len(route_res)
           /\ \A i \in 1..Len(routes) :
                 route_res[i] = CompileRouteTemplate(EffectiveTemplate(EntryOf(routes[i])))

\* Whether a template is structurally invalid: a segment holds a brace
\* without being one placeholder in braces, a placeholder has no name, or
\* two placeholders have the same name.
HasBrace(s) == \E i \in 1..Len(s) : s[i] \in {"{", "}"}
IsInvalidTemplate(template) ==
    LET segs == SegmentsOf(template)
    IN \/ \E k \in 1..Len(segs) :
             \/ HasBrace(segs[k]) /\ ~IsPlaceholder(segs[k])
             \/ IsPlaceholder(segs[k]) /\ HasBrace(Slice1M1(segs[k]))
             \/ IsPlaceholder(segs[k]) /\ Slice1M1(segs[k]) = <<>>
       \/ \E k, l \in 1..Len(segs) :
             k # l /\ IsPlaceholder(segs[k]) /\ segs[l] = segs[k]

\* C13: a route whose effective template is structurally invalid either was
\* refused at registration with an error, or its pattern accepts no path:
\* match returns nothing for it on any path.
C13_InvalidTemplateNeverMatches ==
    \A i \in 1..Len(added) :
        LET t == EffectiveTemplate(added[i])
        IN IsInvalidTemplate(t) =>
             \/ CompileRouteTemplate(t).error
             \/ \A p \in RichPaths : Matched(added[i].route.method, p) = None

\* The places of the per-method route lists: <<method, position>>.
Places ==
    UNION {{<<m, i>> : i \in 1..Len(routes_by_method[m])} : m \in DOMAIN routes_by_method}
RouteAt(w) == routes_by_method[w[1]][w[2]]

\* C14: no two places of the per-method lists hold routes of the same name;
\* the keys of the name index are exactly the names of the routes in the
\* lists, each bound to the route that a list holds under that name; and
\* every route that was registered is at exactly one place, in the list of
\* its own method.
C14_NamesUniqueAndIndexed ==
    /\ \A w1, w2 \in Places : RouteAt(w1).name = RouteAt(w2).name => w1 = w2
    /\ DOMAIN routes_by_name = {RouteAt(w).name : w \in Places}
    /\ \A w \in Places : routes_by_name[RouteAt(w).name] = RouteAt(w)
    /\ \A i \in 1..Len(added) :
          LET at == {w \in Places : RouteAt(w) = added[i].route}
          IN Cardinality(at) = 1 /\ \A w \in at : w[1] = added[i].route.method

\* C14 witness: three routes are registered under the two methods, and the
\* last call was refused for a name already taken.
C14_Witness ==
    /\ ret.op = "add_route" /\ IsValueError(ret.exc)
    /\ Cardinality(DOMAIN routes_by_name) = 3
    /\ Len(ListOf(routes_by_method, "GET")) = 2
    /\ Len(ListOf(routes_by_method, "POST")) = 1

\* C15: a call to match, for any method and path, also a method no route was
\* registered under, leaves the name index, the per-method route lists and
\* the per-method pattern lists, with the method keys they hold, as they
\* were.
C15_MatchIsPureRead ==
    [][ret'.op = "match"
         => UNCHANGED <<routes_by_name, routes_by_method, route_res_by_method>>]_vars

\* match(method, path) on the router a state record describes.
MatchedIn(st, method, path) == MatchValue(st.by_method, st.res_by_method, method, path)

\* The router as it was before the add_route call in progress began, and as
\* it is once the call has ended.
BeforeCall ==
    IF registering = Idle THEN Current
    ELSE Replay(EmptyRouter, SubSeq(added, 1, Len(added) - 1))
AfterCall == IF registering = Idle THEN Current ELSE Replay(EmptyRouter, added)

\* C16: whenever match runs, also between two updates of an add_route call,
\* a result that is not None is a route with the groups that the pattern of
\* the route's own effective template captures from the path, and the result
\* is the one match gives before the call began or the one it gives after
\* the call has ended.
C16_MatchSeesBeforeOrAfter ==
    \A m \in Methods, p \in Paths :
        LET v == Matched(m, p)
        IN /\ v # None =>
                LET pattern == CompileRouteTemplate(EffectiveTemplate(EntryOf(v[1])))
                    own == ReMatch(pattern, p)
                IN ~pattern.error /\ own.ok /\ v[2] = own.groups
           /\ \/ v = MatchedIn(BeforeCall, m, p)
              \/ v = MatchedIn(AfterCall, m, p)
====
